---------------------------- MODULE Spec2Model ----------------------------
(***************************************************************************)
(* A model of the patient-record manager of src/main.py: the validators    *)
(* and the age computation of class Patient, the flat-file adapter         *)
(* FileManager, and the CRUD operations of PatientManagementSystem.        *)
(*                                                                         *)
(* Python values.  A Python str is a sequence of one-character strings     *)
(* (the validators and strptime inspect characters).  The fields "id" and  *)
(* "age" hold an int when a record is built (lines 9, 13) and a str once   *)
(* the record has been read back from the csv file, so a value of these    *)
(* two fields carries its Python type: PyInt(n) or PyStr(s).  None, bool,  *)
(* dict and list results and a raised exception are tagged the same way.   *)
(*                                                                         *)
(* The backing file is missing, holds rows, holds text the format's parser *)
(* rejects (json.JSONDecodeError, csv.Error), or holds bytes that are no   *)
(* text (UnicodeDecodeError).  A write succeeds, fails in open(), or fails *)
(* after open() has truncated the file.  The command loop (lines 138-173)  *)
(* catches nothing, so an exception ends the process: "raised" is final.   *)
(***************************************************************************)
EXTENDS Integers, Sequences, FiniteSets, TLC

VARIABLES
    storage_type,   \* "csv" or "json": the backend chosen at start-up
    file,           \* the backing file of that backend (patients.csv / .json)
    today,          \* datetime.today(): the current date [y, m, d]
    pc,             \* per manager: "absent", "start", "ready" or "raised"
    patients,       \* per manager: self.patients
    call,           \* the last call made (who, which operation, arguments)
    ret,            \* what that call returned, or the exception it raised
    pre,            \* self.patients of the caller and the file before that call
    deleted         \* the identifiers (as text) of the records deleted so far

vars == <<storage_type, file, today, pc, patients, call, ret, pre, deleted>>

---------------------------------------------------------------------------
(* Python values                                                           *)

PyInt(n) == [t |-> "int", v |-> n]
PyStr(s) == [t |-> "str", v |-> s]
PyBool(b) == [t |-> "bool", v |-> b]
PyDict(d) == [t |-> "dict", v |-> d]
PyList(l) == [t |-> "list", v |-> l]
PyNone == [t |-> "None", v |-> 0]
Raised(e) == [t |-> "raise", v |-> e]

Digit == {"0", "1", "2", "3", "4", "5", "6", "7", "8", "9"}

DigitVal(c) ==
    CASE c = "0" -> 0 [] c = "1" -> 1 [] c = "2" -> 2 [] c = "3" -> 3
      [] c = "4" -> 4 [] c = "5" -> 5 [] c = "6" -> 6 [] c = "7" -> 7
      [] c = "8" -> 8 [] c = "9" -> 9

DigitChar(n) == <<"0", "1", "2", "3", "4", "5", "6", "7", "8", "9">>[n + 1]

Whitespace == {" ", "\n", "\t", "\r"}

IsDigits(s) == Len(s) > 0 /\ \A i \in 1..Len(s) : s[i] \in Digit

RECURSIVE Decimal(_)
Decimal(s) ==
    IF Len(s) = 0 THEN 0
    ELSE 10 * Decimal(SubSeq(s, 1, Len(s) - 1)) + DigitVal(s[Len(s)])

RECURSIVE Strip(_)
Strip(s) ==
    IF Len(s) = 0 THEN s
    ELSE IF s[1] \in Whitespace THEN Strip(Tail(s))
    ELSE IF s[Len(s)] \in Whitespace THEN Strip(SubSeq(s, 1, Len(s) - 1))
    ELSE s

\* int(text) on a text of digits with surrounding whitespace (line 46)
IntOf(s) == Decimal(Strip(s))

RECURSIVE NatStr(_)
NatStr(n) ==
    IF n < 10 THEN <<DigitChar(n)>>
    ELSE NatStr(n \div 10) \o <<DigitChar(n % 10)>>

\* str(value) (lines 101, 121, 127, and the csv writer's conversion)
Str(x) ==
    IF x.t = "int"
    THEN IF x.v < 0 THEN <<"-">> \o NatStr(0 - x.v) ELSE NatStr(x.v)
    ELSE x.v

RECURSIVE Split(_, _)
Split(s, sep) ==
    IF \A i \in 1..Len(s) : s[i] # sep THEN <<s>>
    ELSE LET k == CHOOSE i \in 1..Len(s) :
                      s[i] = sep /\ \A j \in 1..(i - 1) : s[j] # sep
         IN  <<SubSeq(s, 1, k - 1)>> \o Split(SubSeq(s, k + 1, Len(s)), sep)

---------------------------------------------------------------------------
(* datetime                                                                *)

IsLeap(y) == (y % 4 = 0 /\ y % 100 # 0) \/ y % 400 = 0

DaysInMonth(y, m) ==
    IF m = 2 THEN (IF IsLeap(y) THEN 29 ELSE 28)
    ELSE IF m \in {4, 6, 9, 11} THEN 30 ELSE 31

\* datetime(year, month, day) does not raise ValueError
DatetimeValid(y, m, d) ==
    /\ y \in 1..9999
    /\ m \in 1..12
    /\ d \in 1..DaysInMonth(y, m)

\* the directives %d, %m and %Y of strptime
StrpDay(p) ==
    \/ Len(p) = 2 /\ p[1] = "3" /\ p[2] \in {"0", "1"}
    \/ Len(p) = 2 /\ p[1] \in {"1", "2"} /\ p[2] \in Digit
    \/ Len(p) = 2 /\ p[1] = "0" /\ p[2] \in Digit \ {"0"}
    \/ Len(p) = 1 /\ p[1] \in Digit \ {"0"}
    \/ Len(p) = 2 /\ p[1] = " " /\ p[2] \in Digit \ {"0"}

StrpMonth(p) ==
    \/ Len(p) = 2 /\ p[1] = "1" /\ p[2] \in {"0", "1", "2"}
    \/ Len(p) = 2 /\ p[1] = "0" /\ p[2] \in Digit \ {"0"}
    \/ Len(p) = 1 /\ p[1] \in Digit \ {"0"}

StrpYear(p) == Len(p) = 4 /\ IsDigits(p)

\* datetime.strptime(text, "%d-%m-%Y"): the date, or ValueError
Strptime(s) ==
    LET parts == Split(s, "-")
    IN  IF /\ Len(parts) = 3
           /\ StrpDay(parts[1]) /\ StrpMonth(parts[2]) /\ StrpYear(parts[3])
           /\ DatetimeValid(IntOf(parts[3]), IntOf(parts[2]), IntOf(parts[1]))
        THEN [ok |-> TRUE, y |-> IntOf(parts[3]), m |-> IntOf(parts[2]),
              d |-> IntOf(parts[1])]
        ELSE [ok |-> FALSE, y |-> 0, m |-> 0, d |-> 0]

---------------------------------------------------------------------------
(* class Patient                                                           *)

\* (a, b) < (c, d) on tuples
TupleLess(a, b, c, d) == a < c \/ (a = c /\ b < d)

\* a variant that counts the birthday only from the day after it
AgeBirthdayNotCounted(dob, now) ==
    now.y - dob.y - (IF TupleLess(now.m, now.d, dob.m, dob.d) \/
                        (now.m = dob.m /\ now.d = dob.d) THEN 1 ELSE 0)

\* Patient.calculate_age, lines 20-23, on the parsed date of birth
Age(dob, now) ==
    now.y - dob.y - (IF TupleLess(now.m, now.d, dob.m, dob.d) THEN 1 ELSE 0)

\* re.match of the pattern of line 41; "$" also matches just before a
\* newline that ends the text
MatchDatePattern(s) ==
    /\ Len(s) = 10 \/ (Len(s) = 11 /\ s[11] = "\n")
    /\ \/ s[1] = "0" /\ s[2] \in Digit \ {"0"}
       \/ s[1] \in {"1", "2"} /\ s[2] \in Digit
       \/ s[1] = "3" /\ s[2] \in {"0", "1"}
    /\ s[3] = "-"
    /\ \/ s[4] = "0" /\ s[5] \in Digit \ {"0"}
       \/ s[4] = "1" /\ s[5] \in {"0", "1", "2"}
    /\ s[6] = "-"
    /\ \A i \in 7..10 : s[i] \in Digit

\* Patient.validate_date_of_birth
validate_date_of_birth(s) ==
    IF ~MatchDatePattern(s) THEN FALSE
    ELSE LET parts == Split(s, "-")
         IN  DatetimeValid(IntOf(parts[3]), IntOf(parts[2]), IntOf(parts[1]))

\* Patient.validate_phone_number: the pattern of line 57
validate_phone_number(s) ==
    /\ Len(s) = 12 \/ (Len(s) = 13 /\ s[13] = "\n")
    /\ \A i \in {1, 2, 3, 5, 6, 7, 9, 10, 11, 12} : s[i] \in Digit
    /\ s[4] = "-" /\ s[8] = "-"

---------------------------------------------------------------------------
(* Bounds and inputs                                                       *)

MaxPatients == 2

Managers == {1, 2}

Ama == <<"A", "m", "a">>
Yaa == <<"Y", "a", "a">>
Mensah == <<"M", "e", "n", "s", "a", "h">>
Accra == <<"A", "c", "c", "r", "a">>
Kumasi == <<"K", "u", "m", "a", "s", "i">>
HouseNo == <<"H", "1">>
Phone == <<"0", "2", "4", "-", "0", "0", "0", "-", "0", "0", "0", "0">>

Dob1990 == <<"1", "5", "-", "0", "6", "-", "1", "9", "9", "0">>
DobNoSuchDay == <<"3", "1", "-", "0", "2", "-", "1", "9", "9", "0">>

FirstNames == {Ama}
DobInputs == {Dob1990, DobNoSuchDay}

Date(y, m, d) == [y |-> y, m |-> m, d |-> d]
Clock == <<Date(2024, 1, 1), Date(2024, 6, 14), Date(2024, 6, 15)>>

\* the prompt passes the text typed (lines 163, 168); a caller may pass an int
PidInputs == {PyStr(NatStr(n)) : n \in 1..MaxPatients} \cup {PyInt(1)}

\* updated_info: a dict of some of the fields
UpdateInfos ==
    { [k \in {"first_name", "hometown"} |-> IF k = "first_name" THEN Yaa ELSE Kumasi] }

\* how the operating system treats a write: it succeeds, open() fails, or
\* a write fails after open() has truncated the file
IoOutcomes == {"ok", "open_fails", "write_fails"}

---------------------------------------------------------------------------
(* class Patient: construction                                             *)

\* Patient.__init__ followed by to_dict (lines 8-16, 25-36); dob parses
to_dict(patient_id, first_name, last_name, date_of_birth, hometown, house_number, phone_number, now) ==
    [id |-> PyInt(patient_id),
     first_name |-> first_name,
     last_name |-> last_name,
     date_of_birth |-> date_of_birth,
     age |-> PyInt(Age(Strptime(date_of_birth), now)),
     hometown |-> hometown,
     house_number |-> house_number,
     phone_number |-> phone_number]

---------------------------------------------------------------------------
(* class FileManager                                                       *)

Fieldnames ==
    <<"id", "first_name", "last_name", "date_of_birth", "age", "hometown",
      "house_number", "phone_number">>

\* the csv writer writes str(value) under each of the field names; the reader
\* returns text (the fields other than id and age hold text already)
CsvRow(p) ==
    [k \in {Fieldnames[i] : i \in DOMAIN Fieldnames} |->
        IF k \in {"id", "age"} THEN PyStr(Str(p[k])) ELSE p[k]]

CsvRows(data) == [i \in 1..Len(data) |-> CsvRow(data[i])]

NoFile == [kind |-> "missing", rows |-> <<>>]
DataFile(rows) == [kind |-> "data", rows |-> rows]
Malformed == [kind |-> "malformed", rows |-> <<>>]
Undecodable == [kind |-> "undecodable", rows |-> <<>>]

\* FileManager.read_file: the list read, or the exception that escapes
read_file(st, f) ==
    IF f.kind = "missing" THEN [ok |-> TRUE, data |-> <<>>, exc |-> ""]
    ELSE IF f.kind = "undecodable"
    THEN [ok |-> FALSE, data |-> <<>>, exc |-> "UnicodeDecodeError"]
    ELSE IF f.kind = "malformed"
    THEN IF st = "json" THEN [ok |-> TRUE, data |-> <<>>, exc |-> ""]
         ELSE [ok |-> FALSE, data |-> <<>>, exc |-> "csv.Error"]
    ELSE [ok |-> TRUE, data |-> f.rows, exc |-> ""]

\* what a completed write_file leaves in the file
Written(st, data) ==
    DataFile(IF st = "csv" THEN CsvRows(data) ELSE data)

\* a variant that writes the header and no row
write_file_header_only(st, data, f, io) ==
    IF io = "ok" THEN {DataFile(<<>>)} ELSE {f}

\* a variant that opens the file to append (mode "a") instead of rewriting it
write_file_append(st, data, f, io) ==
    IF io = "ok"
    THEN {DataFile(f.rows \o (IF st = "csv" THEN CsvRows(data) ELSE data))}
    ELSE {f}

\* FileManager.write_file: the files it can leave behind
write_file(st, data, f, io) ==
    IF io = "ok" THEN {Written(st, data)}
    ELSE IF io = "open_fails" THEN {f}
    ELSE IF st = "json" THEN {Malformed}
    ELSE {DataFile(SubSeq(CsvRows(data), 1, k)) : k \in 0..(Len(data) - 1)}
         \cup {DataFile(<<>>)}

SameId(p, patient_id) == Str(p.id) = Str(patient_id)

\* a variant that drops only the first record that matches
RECURSIVE WithoutFirstOnly(_, _)
WithoutFirstOnly(data, patient_id) ==
    IF Len(data) = 0 THEN <<>>
    ELSE IF SameId(data[1], patient_id) THEN Tail(data)
    ELSE <<data[1]>> \o WithoutFirstOnly(Tail(data), patient_id)

\* new_data of FileManager.delete_from_file (line 101)
RECURSIVE Without(_, _)
Without(data, patient_id) ==
    IF Len(data) = 0 THEN <<>>
    ELSE IF SameId(data[1], patient_id) THEN Without(Tail(data), patient_id)
    ELSE <<data[1]>> \o Without(Tail(data), patient_id)

---------------------------------------------------------------------------
(* class PatientManagementSystem                                           *)

\* a variant that takes the last record that matches
LastMatch(list, patient_id) ==
    IF \E i \in 1..Len(list) : SameId(list[i], patient_id)
    THEN CHOOSE i \in 1..Len(list) :
             /\ SameId(list[i], patient_id)
             /\ \A j \in (i + 1)..Len(list) : ~SameId(list[j], patient_id)
    ELSE 0

\* a variant that falls back on the first record when none matches
FirstMatchOrFirst(list, patient_id) ==
    IF \E i \in 1..Len(list) : SameId(list[i], patient_id)
    THEN CHOOSE i \in 1..Len(list) :
             /\ SameId(list[i], patient_id)
             /\ \A j \in 1..(i - 1) : ~SameId(list[j], patient_id)
    ELSE IF Len(list) > 0 THEN 1 ELSE 0

\* the index of the first record the loops of lines 120 and 126 match; 0: none
FirstMatch(list, patient_id) ==
    IF \E i \in 1..Len(list) : SameId(list[i], patient_id)
    THEN CHOOSE i \in 1..Len(list) :
             /\ SameId(list[i], patient_id)
             /\ \A j \in 1..(i - 1) : ~SameId(list[j], patient_id)
    ELSE 0

\* search_patient_by_id
search_patient_by_id(list, patient_id) ==
    IF FirstMatch(list, patient_id) = 0 THEN PyNone
    ELSE PyDict(list[FirstMatch(list, patient_id)])

\* dict.update (line 128)
DictUpdate(p, updated_info) ==
    [k \in DOMAIN p \cup DOMAIN updated_info |->
        IF k \in DOMAIN updated_info THEN updated_info[k] ELSE p[k]]

NoArgs == [pid |-> PyNone, info |-> <<>>, first_name |-> <<>>,
           date_of_birth |-> <<>>, io |-> "ok", text |-> <<>>]

Call(m, op, args) == [m |-> m, op |-> op, args |-> args]

Pre(m) == [patients |-> patients[m], file |-> file]

\* PatientManagementSystem.__init__
Construct(m) ==
    /\ pc[m] = "start"
    /\ LET r == read_file(storage_type, file)
       IN  IF r.ok
           THEN /\ patients' = [patients EXCEPT ![m] = r.data]
                /\ pc' = [pc EXCEPT ![m] = "ready"]
                /\ ret' = PyNone
           ELSE /\ pc' = [pc EXCEPT ![m] = "raised"]
                /\ ret' = Raised(r.exc)
                /\ UNCHANGED patients
    /\ call' = Call(m, "init", NoArgs)
    /\ pre' = Pre(m)
    /\ UNCHANGED <<storage_type, file, today, deleted>>

\* add_patient
AddPatient(m, first_name, date_of_birth, io) ==
    /\ pc[m] = "ready"
    /\ Len(patients[m]) < MaxPatients
    /\ call' = Call(m, "add", [NoArgs EXCEPT !.first_name = first_name,
                                             !.date_of_birth = date_of_birth,
                                             !.io = io])
    /\ pre' = Pre(m)
    /\ IF ~Strptime(date_of_birth).ok
       THEN /\ io = "ok"
            /\ pc' = [pc EXCEPT ![m] = "raised"]
            /\ ret' = Raised("ValueError")
            /\ UNCHANGED <<patients, file>>
       ELSE LET patient_id == Len(patients[m]) + 1
                new_patient == to_dict(patient_id, first_name, Mensah,
                                       date_of_birth, Accra, HouseNo, Phone,
                                       today)
                list == Append(patients[m], new_patient)
            IN  /\ patients' = [patients EXCEPT ![m] = list]
                /\ file' \in write_file(storage_type, list, file, io)
                /\ pc' = [pc EXCEPT ![m] = IF io = "ok" THEN "ready" ELSE "raised"]
                /\ ret' = IF io = "ok" THEN PyNone ELSE Raised("OSError")
    /\ UNCHANGED <<storage_type, today, deleted>>

\* get_all_patients
GetAllPatients(m) ==
    /\ pc[m] = "ready"
    /\ call' = Call(m, "get_all", NoArgs)
    /\ pre' = Pre(m)
    /\ ret' = PyList(patients[m])
    /\ UNCHANGED <<storage_type, file, today, pc, patients, deleted>>

\* search_patient_by_id
SearchPatientById(m, patient_id) ==
    /\ pc[m] = "ready"
    /\ call' = Call(m, "search", [NoArgs EXCEPT !.pid = patient_id])
    /\ pre' = Pre(m)
    /\ ret' = search_patient_by_id(patients[m], patient_id)
    /\ UNCHANGED <<storage_type, file, today, pc, patients, deleted>>

\* the list after the loop body of lines 127-128 ran on record i
Updated(list, i, updated_info) ==
    [list EXCEPT ![i] = DictUpdate(list[i], updated_info)]

\* update_patient_by_id
UpdatePatientById(m, patient_id, updated_info, io) ==
    /\ pc[m] = "ready"
    /\ call' = Call(m, "update", [NoArgs EXCEPT !.pid = patient_id,
                                                !.info = updated_info,
                                                !.io = io])
    /\ pre' = Pre(m)
    /\ LET i == FirstMatch(patients[m], patient_id)
       IN  IF i = 0
           THEN /\ io = "ok"
                /\ ret' = PyBool(FALSE)
                /\ UNCHANGED <<patients, file, pc>>
           ELSE LET list == Updated(patients[m], i, updated_info)
                IN  /\ patients' = [patients EXCEPT ![m] = list]
                    /\ file' \in write_file(storage_type, list, file, io)
                    /\ pc' = [pc EXCEPT ![m] = IF io = "ok" THEN "ready"
                                               ELSE "raised"]
                    /\ ret' = IF io = "ok" THEN PyBool(TRUE)
                              ELSE Raised("OSError")
    /\ UNCHANGED <<storage_type, today, deleted>>

\* delete_patient_by_id, with FileManager.delete_from_file
DeletePatientById(m, patient_id, io) ==
    /\ pc[m] = "ready"
    /\ call' = Call(m, "delete", [NoArgs EXCEPT !.pid = patient_id, !.io = io])
    /\ pre' = Pre(m)
    /\ LET data == read_file(storage_type, file)
       IN  IF ~data.ok
           THEN /\ io = "ok"
                /\ pc' = [pc EXCEPT ![m] = "raised"]
                /\ ret' = Raised(data.exc)
                /\ UNCHANGED <<patients, file, deleted>>
           ELSE LET new_data == Without(data.data, patient_id)
                IN  /\ file' \in write_file(storage_type, new_data, file, io)
                    /\ IF io = "ok"
                       THEN /\ patients' = [patients EXCEPT ![m] =
                                   read_file(storage_type, file').data]
                            /\ ret' = PyNone
                            /\ deleted' = deleted \cup
                                   {Str(data.data[i].id) : i \in
                                       {j \in 1..Len(data.data) :
                                           SameId(data.data[j], patient_id)}}
                            /\ UNCHANGED pc
                       ELSE /\ pc' = [pc EXCEPT ![m] = "raised"]
                            /\ ret' = Raised("OSError")
                            /\ UNCHANGED <<patients, deleted>>
    /\ UNCHANGED <<storage_type, today>>

\* the calendar moves on between two operations
AdvanceClock ==
    /\ \E i \in 1..(Len(Clock) - 1) : today = Clock[i] /\ today' = Clock[i + 1]
    /\ call' = Call(0, "clock", NoArgs)
    /\ ret' = PyNone
    /\ pre' = [patients |-> <<>>, file |-> file]
    /\ UNCHANGED <<storage_type, file, pc, patients, deleted>>

---------------------------------------------------------------------------
(* The validators, applied to a text                                       *)

DayTexts == {<<"0", "0">>, <<"0", "1">>, <<"2", "8">>, <<"2", "9">>,
             <<"3", "0">>, <<"3", "1">>, <<"3", "2">>}
MonthTexts == {<<"0", "0">>, <<"0", "1">>, <<"0", "2">>, <<"0", "4">>,
               <<"1", "2">>, <<"1", "3">>}
YearTexts == {<<"2", "0", "2", "0">>, <<"2", "0", "2", "1">>,
              <<"1", "9", "0", "0">>, <<"2", "0", "0", "0">>,
              <<"0", "0", "0", "0">>}

DateTexts ==
    {d \o <<"-">> \o m \o <<"-">> \o y \o e :
        d \in DayTexts, m \in MonthTexts, y \in YearTexts, e \in {<<>>, <<"\n">>}}
    \cup {<<>>, <<"1", "-", "1", "-", "2", "0", "2", "0">>,
          <<"1", "5", "/", "0", "6", "/", "1", "9", "9", "0">>,
          <<"1", "5", "-", "0", "6", "-", "9", "0">>,
          <<"1", "5", "-", "0", "6", "-", "1", "9", "9", "0", "x">>,
          <<"a", "5", "-", "0", "6", "-", "1", "9", "9", "0">>,
          <<"1", "5", "-", "0", "6", "-", "1", "9", "9", "0", "\n", "\n">>}

PhoneTexts ==
    {Phone, Phone \o <<"\n">>, SubSeq(Phone, 1, 11), Phone \o <<"0">>,
     [Phone EXCEPT ![4] = " "], [Phone EXCEPT ![1] = "a"], <<>>}

\* a caller applies Patient.validate_date_of_birth to the text it holds
ValidateDateOfBirth ==
    /\ call.op = "date_text"
    /\ call' = [call EXCEPT !.op = "validate_date_of_birth"]
    /\ ret' = PyBool(validate_date_of_birth(call.args.text))
    /\ UNCHANGED <<storage_type, file, today, pc, patients, pre, deleted>>

\* a caller applies Patient.validate_phone_number to the text it holds
ValidatePhoneNumber ==
    /\ call.op = "phone_text"
    /\ call' = [call EXCEPT !.op = "validate_phone_number"]
    /\ ret' = PyBool(validate_phone_number(call.args.text))
    /\ UNCHANGED <<storage_type, file, today, pc, patients, pre, deleted>>

---------------------------------------------------------------------------
(* Specifications                                                          *)

\* the records an earlier run leaves after add, add, delete "1", add, add
EarlierRun ==
    <<to_dict(2, Ama, Mensah, Dob1990, Accra, HouseNo, Phone, Clock[1]),
      to_dict(2, Ama, Mensah, Dob1990, Accra, HouseNo, Phone, Clock[1]),
      to_dict(3, Ama, Mensah, Dob1990, Accra, HouseNo, Phone, Clock[1])>>

\* the files a run can find: none yet, one an earlier run wrote, a damaged one
\* (text the format's parser rejects, bytes that are no text)
StoredFiles(st) ==
    {NoFile, Malformed, Undecodable,
     Written(st, <<to_dict(1, Ama, Mensah, Dob1990, Accra, HouseNo, Phone,
                           Clock[1])>>),
     Written(st, EarlierRun)}

InitWith(live, files) ==
    /\ storage_type \in {"csv", "json"}
    /\ file \in files
    /\ today = Clock[1]
    /\ pc = [m \in Managers |-> IF m \in live THEN "start" ELSE "absent"]
    /\ patients = [m \in Managers |-> <<>>]
    /\ call = Call(0, "none", NoArgs)
    /\ ret = PyNone
    /\ pre = [patients |-> <<>>, file |-> file]
    /\ deleted = {}

\* one manager, on whatever file it finds
Init == InitWith({1}, StoredFiles(storage_type))

Next ==
    \/ \E m \in Managers : Construct(m)
    \/ \E m \in Managers, first_name \in FirstNames, dob \in DobInputs,
          io \in IoOutcomes : AddPatient(m, first_name, dob, io)
    \/ \E m \in Managers : GetAllPatients(m)
    \/ \E m \in Managers, pid \in PidInputs : SearchPatientById(m, pid)
    \/ \E m \in Managers, pid \in PidInputs, info \in UpdateInfos,
          io \in IoOutcomes : UpdatePatientById(m, pid, info, io)
    \/ \E m \in Managers, pid \in PidInputs, io \in IoOutcomes :
          DeletePatientById(m, pid, io)
    \/ AdvanceClock

Spec == Init /\ [][Next]_vars

\* one manager that starts without a file and is only asked to add and delete
InitFresh == InitWith({1}, {NoFile})

NextAddDelete ==
    \/ \E m \in Managers : Construct(m)
    \/ \E m \in Managers, first_name \in FirstNames, dob \in DobInputs,
          io \in IoOutcomes : AddPatient(m, first_name, dob, io)
    \/ \E m \in Managers, pid \in PidInputs, io \in IoOutcomes :
          DeletePatientById(m, pid, io)
    \/ AdvanceClock

SpecAddDelete == InitFresh /\ [][NextAddDelete]_vars

\* two managers (two processes) on the same file
InitTwo == InitWith({1, 2}, {NoFile})

\* (no write fails and the date does not change while the two interleave)
NextTwo ==
    \/ \E m \in Managers : Construct(m)
    \/ \E m \in Managers, first_name \in FirstNames, dob \in DobInputs :
          AddPatient(m, first_name, dob, "ok")
    \/ \E m \in Managers, pid \in PidInputs, info \in UpdateInfos :
          UpdatePatientById(m, pid, info, "ok")

SpecTwo == InitTwo /\ [][NextTwo]_vars

\* a caller holding a text to validate
InitValidate ==
    /\ storage_type = "csv"
    /\ file = NoFile
    /\ today = Clock[1]
    /\ pc = [m \in Managers |-> "absent"]
    /\ patients = [m \in Managers |-> <<>>]
    /\ \/ \E s \in DateTexts :
            call = Call(0, "date_text", [NoArgs EXCEPT !.text = s])
       \/ \E s \in PhoneTexts :
            call = Call(0, "phone_text", [NoArgs EXCEPT !.text = s])
    /\ ret = PyNone
    /\ pre = [patients |-> <<>>, file |-> file]
    /\ deleted = {}

NextValidate == ValidateDateOfBirth \/ ValidatePhoneNumber

SpecValidate == InitValidate /\ [][NextValidate]_vars

---------------------------------------------------------------------------
(* Properties                                                              *)

Caller == call.m
Returned == ret.t # "raise"
Mutating == {"add", "update", "delete"}
Last(list) == list[Len(list)]

\* the records a file holds
FileRecords(f) == IF f.kind = "data" THEN f.rows ELSE <<>>

\* records compared as text (an int and its decimal text are the same value)
AsText(list) == [i \in 1..Len(list) |-> CsvRow(list[i])]

Matches(list, patient_id) ==
    {i \in 1..Len(list) : Str(list[i].id) = Str(patient_id)}

Others(list, patient_id) ==
    SelectSeq(list, LAMBDA p : Str(p.id) # Str(patient_id))

IdsDistinct(list) ==
    \A i, j \in 1..Len(list) : i # j => Str(list[i].id) # Str(list[j].id)

\* C1: no two records of the list or of the file carry the same identifier,
\* and an identifier of a deleted record is never assigned by a later add.
C1_UniqueNeverReused ==
    /\ \A m \in Managers : IdsDistinct(patients[m])
    /\ IdsDistinct(FileRecords(file))
    /\ (call.op = "add" /\ ret # Raised("ValueError"))
          => Str(Last(patients[Caller]).id) \notin deleted

\* C2: a search for the identifier add_patient assigned (the length of the
\* list before the add, plus one) returns the record just added.
C2_AddThenSearch ==
    (call.op = "add" /\ Returned)
        => search_patient_by_id(patients[Caller],
                                PyInt(Len(pre.patients) + 1))
             = PyDict(Last(patients[Caller]))

\* C3: after delete_patient_by_id(id) returns, a search for id returns None,
\* the file holds no record whose identifier is id as text, and the list and
\* the file hold exactly the records of the list before whose identifier
\* differs, in their order.
C3_DeleteThenSearch ==
    (call.op = "delete" /\ Returned)
        => /\ search_patient_by_id(patients[Caller], call.args.pid) = PyNone
           /\ file.kind = "data"
           /\ Matches(file.rows, call.args.pid) = {}
           /\ AsText(patients[Caller]) = AsText(Others(pre.patients, call.args.pid))
           /\ AsText(file.rows) = AsText(Others(pre.patients, call.args.pid))

\* a delete removed two records that shared the identifier and kept another
C3_Witness ==
    /\ call.op = "delete" /\ Returned
    /\ Cardinality(Matches(pre.patients, call.args.pid)) >= 2
    /\ Len(patients[Caller]) >= 1

\* C4: update_patient_by_id on an identifier some record has (the write not
\* failing) returns True; the first record that matches gets the fields
\* given and keeps every other field, the age included; every other record
\* of the list and of the file is as before.
C4_UpdateFrame ==
    (call.op = "update" /\ Matches(pre.patients, call.args.pid) # {}
       /\ call.args.io = "ok")
        => LET list == patients[Caller]
               i == CHOOSE k \in Matches(pre.patients, call.args.pid) :
                        \A j \in Matches(pre.patients, call.args.pid) : k <= j
               info == call.args.info
           IN  /\ ret = PyBool(TRUE)
               /\ Len(list) = Len(pre.patients)
               /\ DOMAIN list[i] = DOMAIN pre.patients[i]
               /\ \A k \in DOMAIN list[i] :
                     list[i][k] = IF k \in DOMAIN info THEN info[k]
                                  ELSE pre.patients[i][k]
               /\ \A j \in 1..Len(list) : j # i => list[j] = pre.patients[j]
               /\ file.kind = "data" /\ pre.file.kind = "data"
               /\ AsText(file.rows) = AsText(list)
               /\ \A j \in 1..Len(list) : j # i => file.rows[j] = pre.file.rows[j]

\* an update returned True where two records shared the identifier
C4_Witness ==
    /\ call.op = "update" /\ ret = PyBool(TRUE)
    /\ Cardinality(Matches(pre.patients, call.args.pid)) >= 2
    /\ patients[Caller] # pre.patients

\* C5: update_patient_by_id with an identifier no record has returns False
\* and leaves the list and the file as they were; search_patient_by_id with
\* such an identifier returns None; neither raises.
C5_LookupMiss ==
    /\ (call.op = "update" /\ Matches(pre.patients, call.args.pid) = {})
          => /\ ret = PyBool(FALSE)
             /\ patients[Caller] = pre.patients
             /\ file = pre.file
             /\ pc[Caller] = "ready"
    /\ (call.op = "search" /\ Matches(pre.patients, call.args.pid) = {})
          => /\ ret = PyNone
             /\ patients[Caller] = pre.patients
             /\ file = pre.file
             /\ pc[Caller] = "ready"

\* an update missed on a list that holds records
C5_Witness ==
    /\ call.op = "update" /\ ret = PyBool(FALSE)
    /\ Len(patients[Caller]) >= 1

\* C6, as stated: when add_patient, update_patient_by_id or
\* delete_patient_by_id ends, by a return or by an exception, the list and
\* the file hold the same records.
C6_Atomic ==
    call.op \in Mutating
        => AsText(patients[Caller]) = AsText(FileRecords(file))

\* the file is what it was, or what the interrupted write left of it
LeftByFailedWrite(f, before, intended) ==
    \/ f = before
    \/ f = Malformed
    \/ /\ f.kind = "data"
       /\ Len(f.rows) < Len(intended) \/ f.rows = <<>>
       /\ f.rows = SubSeq(AsText(intended), 1, Len(f.rows))

\* C6, amended: after a return the list and the file hold the same records;
\* when the record cannot be built neither changes; when the write fails the
\* list of add and update already holds the change, the list of delete is
\* unchanged, and the file is as before or truncated.
C6_AtomicUnlessWriteFails ==
    call.op \in Mutating
        => /\ Returned
                => /\ AsText(patients[Caller]) = AsText(FileRecords(file))
                   /\ pc[Caller] = "ready"
           /\ ~Returned => ret \in {Raised("ValueError"), Raised("OSError")}
           /\ ret = Raised("ValueError")
                => /\ call.op = "add"
                   /\ patients[Caller] = pre.patients
                   /\ file = pre.file
           /\ (ret = Raised("OSError") /\ call.op = "add")
                => /\ Len(patients[Caller]) = Len(pre.patients) + 1
                   /\ SubSeq(patients[Caller], 1, Len(pre.patients)) = pre.patients
                   /\ LeftByFailedWrite(file, pre.file, patients[Caller])
           /\ (ret = Raised("OSError") /\ call.op = "update")
                => /\ Len(patients[Caller]) = Len(pre.patients)
                   /\ \E i \in Matches(pre.patients, call.args.pid) :
                         /\ patients[Caller][i].first_name = call.args.info.first_name
                         /\ \A j \in 1..Len(pre.patients) :
                               j # i => patients[Caller][j] = pre.patients[j]
                   /\ LeftByFailedWrite(file, pre.file, patients[Caller])
           /\ (ret = Raised("OSError") /\ call.op = "delete")
                => /\ patients[Caller] = pre.patients
                   /\ LeftByFailedWrite(file, pre.file,
                                        Others(pre.patients, call.args.pid))

\* an add whose write failed: the list holds the record, the file does not
C6_Witness ==
    /\ call.op = "add" /\ ret = Raised("OSError")
    /\ Len(patients[Caller]) = Len(pre.patients) + 1
    /\ AsText(patients[Caller]) # AsText(FileRecords(file))

\* C7: constructing a manager on a file that is missing or unparseable does
\* not raise and leaves the manager with an empty list, for csv and json.
C7_ReadNeverRaises ==
    (call.op = "init" /\ pre.file.kind # "data")
        => /\ Returned
           /\ pc[Caller] = "ready"
           /\ patients[Caller] = <<>>

\* a date of the calendar: the day exists in the month, and there is no year 0
RealCalendarDate(d, m, y) ==
    /\ y >= 1
    /\ m \in 1..12
    /\ d >= 1
    /\ d <= CASE m \in {1, 3, 5, 7, 8, 10, 12} -> 31
              [] m \in {4, 6, 9, 11} -> 30
              [] OTHER -> IF y % 400 = 0 \/ (y % 4 = 0 /\ y % 100 # 0)
                          THEN 29 ELSE 28

\* the text is DD-MM-YYYY: ten characters, digits around two dashes
IsDDMMYYYY(s) ==
    /\ Len(s) = 10
    /\ s[3] = "-" /\ s[6] = "-"
    /\ \A i \in {1, 2, 4, 5, 7, 8, 9, 10} : s[i] \in Digit
    /\ Decimal(SubSeq(s, 1, 2)) \in 1..31
    /\ Decimal(SubSeq(s, 4, 5)) \in 1..12

\* C8: validate_date_of_birth returns True exactly for the DD-MM-YYYY texts
\* that denote a real calendar date, and False for every other text.
C8_DateValidator ==
    call.op = "validate_date_of_birth"
        => LET s == call.args.text
           IN  ret = PyBool(/\ IsDDMMYYYY(s)
                            /\ RealCalendarDate(Decimal(SubSeq(s, 1, 2)),
                                                Decimal(SubSeq(s, 4, 5)),
                                                Decimal(SubSeq(s, 7, 10))))

DateOfText(s) ==
    Date(Decimal(SubSeq(s, 7, 10)), Decimal(SubSeq(s, 4, 5)),
         Decimal(SubSeq(s, 1, 2)))

NotAfter(a, b) ==
    \/ a.y < b.y
    \/ a.y = b.y /\ a.m < b.m
    \/ a.y = b.y /\ a.m = b.m /\ a.d <= b.d

\* the number of birthdays reached by the date now
FullYears(dob, now) ==
    CHOOSE n \in 0..150 :
        /\ NotAfter(Date(dob.y + n, dob.m, dob.d), now)
        /\ ~NotAfter(Date(dob.y + n + 1, dob.m, dob.d), now)

Ages(list) == [i \in 1..Len(list) |-> Str(list[i].age)]

\* C9: the age add_patient stores is the age in full years on the day of
\* the add, the birthday itself counting (15-06-1990 on 01-01-2024: 33);
\* no search, listing, update or delete changes a stored age.
C9_AgeInFullYears ==
    /\ (call.op = "add" /\ ret # Raised("ValueError"))
          => LET new == Last(patients[Caller])
             IN  /\ new.age = PyInt(FullYears(DateOfText(new.date_of_birth), today))
                 /\ (new.date_of_birth = Dob1990 /\ today = Date(2024, 1, 1))
                       => new.age = PyInt(33)
                 /\ (new.date_of_birth = Dob1990 /\ today = Date(2024, 6, 15))
                       => new.age = PyInt(34)
    /\ call.op \in {"search", "get_all", "update"}
          => /\ Len(patients[Caller]) = Len(pre.patients)
             /\ \A i \in 1..Len(pre.patients) :
                   patients[Caller][i].age = pre.patients[i].age
    /\ (call.op = "search" /\ ret.t = "dict")
          => \E i \in 1..Len(pre.patients) : ret.v = pre.patients[i]
    /\ call.op = "get_all" => ret = PyList(pre.patients)
    /\ (call.op = "delete" /\ Returned)
          => Ages(patients[Caller]) = Ages(Others(pre.patients, call.args.pid))

\* a search on the birthday returns the age stored before it
C9_Witness ==
    /\ call.op = "search" /\ ret.t = "dict"
    /\ ret.v.date_of_birth = Dob1990
    /\ Str(ret.v.age) = <<"3", "3">>
    /\ today = Date(2024, 6, 15)

Holds(list, r) == \E i \in 1..Len(list) : CsvRow(list[i]) = CsvRow(r)

\* C10: a write by one manager leaves in the file exactly that manager's
\* list, so a record another manager holds and the writer never loaded is
\* not in the file any more, and neither manager is told.
C10_LastWriterWins ==
    (call.op \in {"add", "update"} /\ ret \in {PyNone, PyBool(TRUE)})
        => /\ AsText(FileRecords(file)) = AsText(patients[Caller])
           /\ \A o \in Managers \ {Caller} : \A i \in 1..Len(patients[o]) :
                 ~Holds(patients[Caller], patients[o][i])
                     => ~Holds(FileRecords(file), patients[o][i])
           /\ pc[Caller] = "ready"

\* manager 1 added two records and the file held both; manager 2, which
\* loaded the file when it was empty, added one; the file holds that one only
C10_LostRecord ==
    /\ call.op = "add" /\ Caller = 2 /\ Returned
    /\ pc[1] = "ready" /\ pc[2] = "ready"
    /\ pre.patients = <<>>
    /\ Len(patients[1]) = 2
    /\ pre.file = Written(storage_type, patients[1])
    /\ Len(FileRecords(file)) = 1
    /\ \E i \in 1..2 : ~Holds(FileRecords(file), patients[1][i])

=============================================================================
